---------------------------- MODULE Spec2Model ----------------------------
(***************************************************************************)
(* Model of the TaskManagement client: the task filter engine              *)
(* (utils/index.ts, searchTasks) and the two routed list views that call   *)
(* it on every render (pages/Tasks.tsx: Tasks and AssigneeMe).             *)
(*                                                                         *)
(* The specifications of the module:                                       *)
(*   SpecSearch  one call of searchTasks on arguments drawn from bounded   *)
(*               sets (well-typed ones and the ill-typed ones a JavaScript *)
(*               caller can pass);                                         *)
(*   Spec        the routed list views: mount, fetch completion, filter    *)
(*               submission, render;                                       *)
(*   SpecAdmin   the Users and Roles views: load, modals, mutating         *)
(*               request, reload, requests of unmounted instances;         *)
(*   SpecAdminFair  SpecAdmin with every pending request settling;         *)
(*   SpecForms   the Users and Roles views with every value of the form    *)
(*               fields;                                                   *)
(*   SpecPair    Tasks and AssigneeMe side by side on the same inputs;     *)
(*   SpecEdit    the task edit form (UpdateTask);                          *)
(*   SpecAuth    the router, login and logout.                             *)
(***************************************************************************)
EXTENDS Naturals, Sequences, FiniteSets

VARIABLES
    \* ---- one call of searchTasks (SpecSearch) ----
    argTasks,     \* the value passed as `tasks`, as it stands in the heap
    argFilters,   \* the value passed as `filters`, as it stands in the heap
    ret,          \* the completion of the call: a returned array or a throw
    pc,           \* "ready" before the call, "returned" after it
    \* ---- the mounted list view (Spec) ----
    route,        \* the route whose component is mounted
    tasks,        \* React state `tasks` of the mounted view
    filters,      \* React state `filters` of the mounted view
    fetch,        \* the mount effect's request: idle, pending, resolved, rejected
    needsRender,  \* a state update is waiting for its render
    memo,         \* AssigneeMe's useMemo cell: dependencies and cached value
    shown,        \* what the last render put on screen: count and rows
    \* ---- the environment of the views (Spec, SpecAdmin) ----
    event,        \* the last event delivered to the application and what
                  \* its handler wrote to the console and to alert()
    stale,        \* kinds of request still in flight for unmounted components
    \* ---- the Users and Roles views (SpecAdmin) ----
    loading,      \* React state `loading`
    submitting,   \* React state `submitting`
    page,         \* the other state of the mounted Users / Roles, see InitialPage
    flow,         \* the request the mounted view awaits: none, mountLoad,
                  \* mutating, reload
    \* ---- AssigneeMe beside Tasks (SpecPair) ----
    twin,         \* state and screen of the AssigneeMe instance
    \* ---- the task edit form (SpecEdit) ----
    editId,       \* the route parameter :id
    editTask,     \* the id of the task the edit page was opened for
    editPhase,    \* loading, error, form, updating, left
    form,         \* the values of the form's inputs
    sent,         \* the argument of the edit page's pending updateTask call
    \* ---- the auth store (SpecAuth) ----
    loggedInUser, \* useAuthStore's loggedInUser: Null or the user
    \* ---- libraries/api-client.ts ----
    apiClient     \* the exported apiClient

searchVars == <<argTasks, argFilters, ret, pc>>
viewVars   == <<route, tasks, filters, fetch, needsRender, memo, shown>>
envVars    == <<event, stale>>
adminVars  == <<loading, submitting, flow, page>>
editVars   == <<editId, editTask, editPhase, form, sent>>
authVars   == <<loggedInUser>>
moduleVars == <<apiClient>>
vars       == <<argTasks, argFilters, ret, pc,
                route, tasks, filters, fetch, needsRender, memo, shown,
                event, stale, loading, submitting, flow, page, twin,
                editId, editTask, editPhase, form, sent, loggedInUser, apiClient>>

---------------------------------------------------------------------------
(* Bounds *)

\* longest task array passed to one call of searchTasks
MaxLen == 3
\* longest task array a fetch delivers to a view
MaxFetchLen == 1
MaxDay == 2
MaxLoads == 2

---------------------------------------------------------------------------
(* Data model *)

\* the status literals of a task
Status == {"to_do", "in_progress", "done"}
\* the priority literals of a task
Priority == {"low", "medium", "high"}

\* JavaScript's undefined, as the value of an optional string property
Undefined == "<undefined>"

\* A filter property is optional and string-valued: a search form yields
\* undefined (property not set), the empty string (nothing selected) or a literal.
FilterStatus   == {Undefined, ""} \cup Status
FilterPriority == {Undefined, ""} \cup Priority
Filter == [status : FilterStatus, priority : FilterPriority]

\* the filter {} both views start with
EmptyFilter == [status |-> Undefined, priority |-> Undefined]

\* Task arrays of length k; a task's id is unique, here its position in the
\* array it came in with.
TaskArraysOfLen(k) ==
    { [i \in 1..k |-> [id |-> i, status |-> sp[i][1], priority |-> sp[i][2]]] :
        sp \in [1..k -> Status \X Priority] }
TaskArrays(n) == UNION { TaskArraysOfLen(k) : k \in 0..n }

\* JavaScript values as a caller can pass them for `tasks` and `filters`
JsArray(a)      == [type |-> "array", val |-> a]
JsUndefinedArr  == [type |-> "undefined", val |-> <<>>]
JsObject(f)     == [type |-> "object", val |-> f]
JsUndefinedObj  == [type |-> "undefined", val |-> EmptyFilter]

\* completions of a call
Return(a) == [type |-> "return", val |-> a]
Throw     == [type |-> "throw", val |-> <<>>]

---------------------------------------------------------------------------
(* utils/index.ts *)

\* ToBoolean of an optional string: undefined and "" are falsy
Truthy(v) == v # Undefined /\ v # ""

\* Variant: the priority test is left out.
searchTasksCallback_StatusOnly(task, fs) ==
    IF Truthy(fs.status) /\ task.status # fs.status THEN FALSE
    ELSE TRUE

\* Variant: the tests lack the `filters.x &&` guard, so an unset property
\* is compared like a set one.
searchTasksCallback_NoGuard(task, fs) ==
    IF task.status # fs.status THEN FALSE
    ELSE IF task.priority # fs.priority THEN FALSE
    ELSE TRUE

\* Variant: with both properties set, a task passing either test is kept.
searchTasksCallback_Or(task, fs) ==
    IF Truthy(fs.status) /\ Truthy(fs.priority)
    THEN task.status = fs.status \/ task.priority = fs.priority
    ELSE IF Truthy(fs.status) /\ task.status # fs.status THEN FALSE
    ELSE IF Truthy(fs.priority) /\ task.priority # fs.priority THEN FALSE
    ELSE TRUE

\* the callback handed to Array.prototype.filter
searchTasksCallback(task, fs) ==
    IF Truthy(fs.status) /\ task.status # fs.status THEN FALSE
    ELSE IF Truthy(fs.priority) /\ task.priority # fs.priority THEN FALSE
    ELSE TRUE

\* Array.prototype.filter: visits the elements in index order and appends
\* the kept ones to a fresh array
RECURSIVE ArrayFilter(_, _)
ArrayFilter(arr, fs) ==
    IF arr = <<>> THEN <<>>
    ELSE IF searchTasksCallback(Head(arr), fs)
         THEN <<Head(arr)>> \o ArrayFilter(Tail(arr), fs)
         ELSE ArrayFilter(Tail(arr), fs)

RECURSIVE Reverse(_)
Reverse(a) == IF a = <<>> THEN <<>> ELSE Append(Reverse(Tail(a)), Head(a))

\* Variant: the kept tasks are collected newest first (unshift for push).
searchTasks_Reversed(ts, fs) == Reverse(ArrayFilter(ts, fs))

\* Variant: the scan starts at the second element.
searchTasks_SkipFirst(ts, fs) ==
    IF ts = <<>> THEN <<>> ELSE ArrayFilter(Tail(ts), fs)

\* Variant: the kept tasks are appended to a copy of the input
\* (tasks.concat(kept)) instead of being returned alone.
searchTasks_Concat(ts, fs) == ts \o ArrayFilter(ts, fs)

\* searchTasks on a task array and a filter object
searchTasks(ts, fs) == ArrayFilter(ts, fs)

\* Variant: the callback dereferences the property (filters.status.length),
\* which throws when the property is undefined.
searchTasksCall_Deref(t, f) ==
    [ tasks   |-> t,
      filters |-> f,
      ret     |-> IF t.type # "array" THEN Throw
                  ELSE IF t.val # <<>> /\ f.type # "object" THEN Throw
                  ELSE IF t.val # <<>> /\ f.val.status = Undefined THEN Throw
                  ELSE Return(searchTasks(t.val, f.val)) ]

\* Variant: the first element is read before filtering (tasks[0].status),
\* which throws on the empty array.
searchTasksCall_FirstElem(t, f) ==
    [ tasks   |-> t,
      filters |-> f,
      ret     |-> IF t.type # "array" THEN Throw
                  ELSE IF t.val = <<>> THEN Throw
                  ELSE IF f.type # "object" THEN Throw
                  ELSE Return(searchTasks(t.val, f.val)) ]

\* Variant: the array is filtered in place (splice of the rejected elements),
\* so the caller's array is the result afterwards.
searchTasksCall_InPlace(t, f) ==
    [ tasks   |-> IF t.type = "array" /\ (t.val = <<>> \/ f.type = "object")
                  THEN JsArray(searchTasks(t.val, f.val)) ELSE t,
      filters |-> f,
      ret     |-> IF t.type # "array" THEN Throw
                  ELSE IF t.val # <<>> /\ f.type # "object" THEN Throw
                  ELSE Return(searchTasks(t.val, f.val)) ]

\* The call as JavaScript runs it on whatever it is handed: `tasks.filter`
\* throws a TypeError when tasks is undefined; `filters.status` throws when
\* filters is undefined, and is only evaluated when the callback runs, that is
\* when the array has an element.  The arguments are left as they were.
searchTasksCall(t, f) ==
    [ tasks   |-> t,
      filters |-> f,
      ret     |-> IF t.type # "array" THEN Throw
                  ELSE IF t.val # <<>> /\ f.type # "object" THEN Throw
                  ELSE Return(searchTasks(t.val, f.val)) ]

---------------------------------------------------------------------------
(* Values of the parts of the application that are not mounted *)

\* useMemo cell before the first render
NoMemo == [set |-> FALSE, tasks |-> <<>>, filters |-> EmptyFilter, value |-> <<>>]

\* Nothing rendered yet
NoScreen == [count |-> 0, found |-> 0, rows |-> <<>>]

\* An event: its kind, whether it belongs to an unmounted component, its
\* payload (fetched data, submitted filter, requested operation) and what
\* the handler reported: whether it called console.error, and which alert
\* it raised (none, success, failure).
NoEvent ==
    [kind |-> "none", stale |-> FALSE, data |-> <<>>,
     filter |-> EmptyFilter, op |-> "none", console |-> FALSE, alert |-> "none"]

\* No AssigneeMe instance beside Tasks
NoTwin == [tasks |-> <<>>, filters |-> EmptyFilter, memo |-> NoMemo, shown |-> NoScreen]

\* The value of a date field: undefined (never set), or a string that is
\* empty, does not match /^\d{4}-\d{2}-\d{2}$/ ("malformed"), matches it
\* but names no calendar day, such as 2024-02-30 ("invalid"), or names the
\* day `day` ("date").  The day of an "invalid" value is the day an engine
\* that rolls such strings over takes it for.
\* The same record stands for a Date object: "date" with its day, or
\* "invalid" for an Invalid Date.
DateValue(kind, day) == [kind |-> kind, day |-> day]
UndefinedDate == DateValue("undefined", 0)
EmptyDate     == DateValue("empty", 0)

\* useForm without defaultValues: every field undefined
NoForm ==
    [title |-> Undefined, start_date |-> UndefinedDate, due_date |-> UndefinedDate,
     status |-> Undefined]

\* no task id
NoId == [type |-> "undefined", val |-> 0]

\* updateTask not called
NoSent ==
    [called |-> FALSE, id |-> NoId, start_date |-> UndefinedDate,
     due_date |-> UndefinedDate, status |-> Undefined, completed |-> FALSE]

NoView ==
    /\ route = "/login"
    /\ tasks = <<>>
    /\ filters = EmptyFilter
    /\ fetch = "idle"
    /\ needsRender = FALSE
    /\ memo = [set |-> FALSE, tasks |-> <<>>, filters |-> EmptyFilter, value |-> <<>>]
    /\ shown = [count |-> 0, found |-> 0, rows |-> <<>>]

NoEnv == event = NoEvent /\ stale = {}

\* nobody logged in
Null == "<null>"
\* libraries/api-client.ts: the mode setting, and the export the module
\* computes from it when it is loaded
mode == "simple"
ApiClientOf(m) == IF m = "advanced" THEN "apiClientSimple" ELSE "apiClientAdvanced"
NoAuth == loggedInUser = Null /\ apiClient = ApiClientOf(mode)

\* A list of the view: the load it was set by (0: the [] of useState) and
\* whether it holds that load's data or is empty
NoList == [load |-> 0, data |-> FALSE]

\* No Users / Roles instance is mounted
NoPage ==
    [users |-> NoList, roles |-> NoList,
     showCreate |-> FALSE, showEdit |-> FALSE, showAddRole |-> FALSE,
     selected |-> Null,
     create |-> [f \in {} |-> ""], edit |-> [f \in {} |-> ""],
     op |-> "none", loads |-> 0, mutations |-> 0]

NoAdmin == loading = FALSE /\ submitting = FALSE /\ flow = "none" /\ page = NoPage

NoPair == twin = NoTwin

NoEdit ==
    /\ editId = Undefined
    /\ editTask = NoId
    /\ editPhase = "unmounted"
    /\ form = NoForm
    /\ sent = NoSent

---------------------------------------------------------------------------
(* SpecSearch: one call of searchTasks *)

InitSearch ==
    /\ argTasks \in { JsArray(a) : a \in TaskArrays(MaxLen) } \cup {JsUndefinedArr}
    /\ argFilters \in { JsObject(f) : f \in Filter } \cup {JsUndefinedObj}
    /\ ret = Return(<<>>)
    /\ pc = "ready"
    /\ NoView /\ NoEnv /\ NoAdmin /\ NoPair /\ NoEdit /\ NoAuth

CallSearchTasks ==
    /\ pc = "ready"
    /\ LET c == searchTasksCall(argTasks, argFilters) IN
         /\ argTasks' = c.tasks
         /\ argFilters' = c.filters
         /\ ret' = c.ret
    /\ pc' = "returned"
    /\ UNCHANGED <<viewVars, envVars, adminVars, twin, editVars, authVars, moduleVars>>

NextSearch == CallSearchTasks

SpecSearch == InitSearch /\ [][NextSearch]_vars

---------------------------------------------------------------------------
(* Properties of one call, checked under SpecSearch *)

Range(s) == { s[i] : i \in DOMAIN s }

\* both arguments have the type the signature declares: Task[] and Filter
WellTyped == argTasks.type = "array" /\ argFilters.type = "object"

\* the call has returned from well-typed arguments
Returned == pc = "returned" /\ WellTyped

\* a is a sub-sequence of b: b with some elements struck out
RECURSIVE IsSubSeq(_, _)
IsSubSeq(a, b) ==
    IF a = <<>> THEN TRUE
    ELSE IF b = <<>> THEN FALSE
    ELSE IF Head(a) = Head(b) THEN IsSubSeq(Tail(a), Tail(b))
    ELSE IsSubSeq(a, Tail(b))

\* number of positions of s holding x
Occurrences(s, x) == Cardinality({ i \in DOMAIN s : s[i] = x })

\* a filter with only one property set
OnlyStatus(s)   == [status |-> s, priority |-> Undefined]
OnlyPriority(p) == [status |-> Undefined, priority |-> p]

\* "property absent" read as: the property is undefined
MatchesIfPresent(t, f) ==
    /\ (f.status = Undefined \/ t.status = f.status)
    /\ (f.priority = Undefined \/ t.priority = f.priority)

\* "property absent" read as: the property is undefined or the empty string
MatchesIfNonEmpty(t, f) ==
    /\ (f.status \in {Undefined, ""} \/ t.status = f.status)
    /\ (f.priority \in {Undefined, ""} \/ t.priority = f.priority)

\* C1 as stated: the output holds exactly the tasks t of T with (f.status
\* absent or t.status = f.status) and (f.priority absent or t.priority =
\* f.priority), a property counting as present whenever it is set at all.
\* Fails for a property set to the empty string.
C1_ExactlyMatchingIfPresent ==
    Returned =>
        /\ ret.type = "return"
        /\ Range(ret.val) \subseteq Range(argTasks.val)
        /\ \A i \in DOMAIN argTasks.val :
              (argTasks.val[i] \in Range(ret.val))
                  <=> MatchesIfPresent(argTasks.val[i], argFilters.val)

\* C1 amended: the output holds exactly the tasks t of T with (f.status
\* undefined or empty or t.status = f.status) and (f.priority undefined or
\* empty or t.priority = f.priority): none left out, none added.
C1_ExactlyMatching ==
    Returned =>
        /\ ret.type = "return"
        /\ Range(ret.val) \subseteq Range(argTasks.val)
        /\ \A i \in DOMAIN argTasks.val :
              (argTasks.val[i] \in Range(ret.val))
                  <=> MatchesIfNonEmpty(argTasks.val[i], argFilters.val)

\* a call with an empty-string status and a set priority that kept some
\* tasks and dropped others
C1_Witness ==
    /\ Returned
    /\ argFilters.val.status = ""
    /\ argFilters.val.priority \in Priority
    /\ Len(argTasks.val) = 3
    /\ Len(ret.val) \in {1, 2}

\* C2: the output is a sub-sequence of T: tasks kept stand in the order they
\* had in T, and none occurs more often than in T.
C2_OrderPreserved ==
    Returned =>
        /\ IsSubSeq(ret.val, argTasks.val)
        /\ \A i, j \in DOMAIN ret.val :
              i < j => ret.val[i].id < ret.val[j].id
        /\ \A x \in Range(ret.val) :
              Occurrences(ret.val, x) <= Occurrences(argTasks.val, x)

\* a call that kept the first and the last of three tasks and dropped the middle
C2_Witness ==
    /\ Returned
    /\ Len(argTasks.val) = 3
    /\ ret.val = <<argTasks.val[1], argTasks.val[3]>>

\* C3: with the filter {} the output equals T, element for element.
C3_EmptyFilterIdentity ==
    (Returned /\ argFilters.val = EmptyFilter) => ret = Return(argTasks.val)

\* the filter {} applied to tasks of differing status and priority
C3_Witness ==
    /\ Returned
    /\ argFilters.val = EmptyFilter
    /\ Len(argTasks.val) >= 2
    /\ argTasks.val[1].status # argTasks.val[2].status
    /\ argTasks.val[1].priority # argTasks.val[2].priority
    /\ ret.val = argTasks.val

\* C4: filtering on status s and priority p together equals filtering on s
\* then on p, and equals filtering on p then on s.
C4_AndAcrossFields ==
    (Returned /\ argFilters.val.status \in Status
              /\ argFilters.val.priority \in Priority) =>
        LET s == argFilters.val.status
            p == argFilters.val.priority
            T == argTasks.val
        IN /\ ret = Return(searchTasks(searchTasks(T, OnlyStatus(s)), OnlyPriority(p)))
           /\ ret = Return(searchTasks(searchTasks(T, OnlyPriority(p)), OnlyStatus(s)))

\* a two-property filter where some task matches only the status, another
\* only the priority, and a third both
C4_Witness ==
    /\ Returned
    /\ argFilters.val.status \in Status
    /\ argFilters.val.priority \in Priority
    /\ Len(ret.val) = 1
    /\ \E i \in DOMAIN argTasks.val :
          /\ argTasks.val[i].status = argFilters.val.status
          /\ argTasks.val[i].priority # argFilters.val.priority
    /\ \E i \in DOMAIN argTasks.val :
          /\ argTasks.val[i].status # argFilters.val.status
          /\ argTasks.val[i].priority = argFilters.val.priority

\* C5: filtering the output again with the same filter changes nothing.
C5_Idempotent ==
    Returned => searchTasks(ret.val, argFilters.val) = ret.val

\* a call that dropped a task and kept two
C5_Witness ==
    /\ Returned
    /\ Truthy(argFilters.val.status)
    /\ Len(argTasks.val) = 3
    /\ Len(ret.val) = 2

\* C6: the output is no longer than T.
C6_NoLonger ==
    Returned => Len(ret.val) <= Len(argTasks.val)

\* a call that kept every task of a full-length array under a set filter,
\* so the lengths are equal
C6_Witness ==
    /\ Returned
    /\ Truthy(argFilters.val.priority)
    /\ Len(argTasks.val) >= 2
    /\ Len(ret.val) = Len(argTasks.val)

\* C9: on a task array and a filter object of the declared types the call
\* returns an array of tasks of T and does not throw.
C9_TotalOnWellFormed ==
    Returned =>
        /\ ret.type = "return"
        /\ \A i \in DOMAIN ret.val : ret.val[i] \in Range(argTasks.val)

\* a well-typed call with a non-empty array, status unset and priority set,
\* which returned a non-empty array
C9_Witness ==
    /\ Returned
    /\ argFilters.val.status = Undefined
    /\ argFilters.val.priority \in Priority
    /\ ret.type = "return"
    /\ ret.val # <<>>

\* an ill-typed call does throw: the model can tell a throw from a return
ThrowReached ==
    pc = "returned" /\ ~WellTyped /\ ret = Throw

\* C10: on the empty array the call returns the empty array, for every filter.
C10_EmptyInEmptyOut ==
    (Returned /\ argTasks.val = <<>>) => ret = Return(<<>>)

\* the call on the empty array with both properties set
C10_Witness ==
    /\ Returned
    /\ argTasks.val = <<>>
    /\ argFilters.val.status \in Status
    /\ argFilters.val.priority \in Priority
    /\ ret = Return(<<>>)

---------------------------------------------------------------------------
(* pages/Tasks.tsx: the list views Tasks (/tasks) and AssigneeMe (/assignee-me) *)
(* pages/Users.tsx, pages/Roles.tsx: the views Users (/users) and Roles (/roles) *)

ListRoutes  == {"/tasks", "/assignee-me"}
AdminRoutes == {"/users", "/roles"}

\* the mutating requests of a view's handlers
MutationOps(r) ==
    IF r = "/users"
    THEN {"createUser", "updateUser", "deleteUser", "addRoleToUser", "removeRoleFromUser"}
    ELSE {"createRole", "updateRole", "deleteRole"}

\* the event of kind k
Ev(k) == [NoEvent EXCEPT !.kind = k]

\* The requests of the mounted component that are still in flight; when the
\* component unmounts they stay in flight with nobody to receive them.
InFlight ==
    (IF route \in ListRoutes /\ fetch = "pending" THEN {"fetch"} ELSE {})
    \cup (IF route \in AdminRoutes /\ flow \in {"mountLoad", "reload"} THEN {"load"} ELSE {})
    \cup (IF route \in AdminRoutes /\ flow = "mutating" THEN {"mutation"} ELSE {})
    \cup (IF route = "/update" /\ editPhase = "updating" THEN {"update"} ELSE {})

Init ==
    /\ argTasks = JsArray(<<>>)
    /\ argFilters = JsObject(EmptyFilter)
    /\ ret = Return(<<>>)
    /\ pc = "ready"
    /\ route = "/login"
    /\ tasks = <<>>
    /\ filters = EmptyFilter
    /\ fetch = "idle"
    /\ needsRender = FALSE
    /\ memo = NoMemo
    /\ shown = NoScreen
    /\ NoEnv /\ NoAdmin /\ NoPair /\ NoEdit /\ NoAuth

\* Variant: the task list lives outside the component (a module-level
\* store), so a newly mounted view starts with the list of the last one.
Navigate_KeepTasks(to) ==
    /\ ~needsRender
    /\ to \in ListRoutes
    /\ to # route
    /\ route' = to
    /\ tasks' = tasks
    /\ filters' = EmptyFilter
    /\ fetch' = "idle"
    /\ memo' = NoMemo
    /\ needsRender' = TRUE
    /\ event' = Ev("mount")
    /\ stale' = stale \cup InFlight
    /\ UNCHANGED <<shown, searchVars, moduleVars, authVars, adminVars, twin, editVars>>

\* The router mounts the component of a list route: useState gives
\* tasks = [] and filters = {}, and the first render is due.
Navigate(to) ==
    /\ ~needsRender
    /\ to \in ListRoutes
    /\ to # route
    /\ route' = to
    /\ tasks' = <<>>
    /\ filters' = EmptyFilter
    /\ fetch' = "idle"
    /\ memo' = NoMemo
    /\ needsRender' = TRUE
    /\ event' = Ev("mount")
    /\ stale' = stale \cup InFlight
    /\ UNCHANGED <<shown, searchVars, moduleVars, authVars, adminVars, twin, editVars>>

\* Variant: the header count is taken from the unfiltered list (tasks.length).
TasksRender_RawCount(ts, fs) ==
    LET c == searchTasksCall(JsArray(ts), JsObject(fs))
    IN [tasks |-> c.tasks.val, filters |-> c.filters.val,
        shown |-> [count |-> Len(ts), found |-> Len(c.ret.val), rows |-> c.ret.val]]

\* Render of Tasks: searchTasks(tasks, filters) is called for the header
\* count, for the "tasks found" test, for the "tasks found" text when the
\* test passed, and for the rows of TaskList, each call on the state the
\* previous one left.
TasksRender(ts, fs) ==
    LET c1 == searchTasksCall(JsArray(ts), JsObject(fs))
        c2 == searchTasksCall(c1.tasks, c1.filters)
        c3 == IF Len(c2.ret.val) > 0 THEN searchTasksCall(c2.tasks, c2.filters) ELSE c2
        c4 == searchTasksCall(c3.tasks, c3.filters)
    IN [tasks |-> c4.tasks.val, filters |-> c4.filters.val,
        shown |-> [count |-> Len(c1.ret.val), found |-> Len(c3.ret.val),
                   rows |-> c4.ret.val]]

RenderTasks ==
    LET r == TasksRender(tasks, filters)
    IN /\ tasks' = r.tasks
       /\ filters' = r.filters
       /\ shown' = r.shown
       /\ memo' = memo

\* Variant: the dependency list of useMemo names tasks only ([tasks]).
AssigneeMeRender_DepsTasksOnly(ts, fs, m) ==
    LET hit == m.set /\ m.tasks = ts
        c   == searchTasksCall(JsArray(ts), JsObject(fs))
        filteredTasks == IF hit THEN m.value ELSE c.ret.val
    IN [tasks |-> IF hit THEN ts ELSE c.tasks.val,
        filters |-> IF hit THEN fs ELSE c.filters.val,
        memo |-> [set |-> TRUE, tasks |-> ts, filters |-> fs, value |-> filteredTasks],
        shown |-> [count |-> Len(filteredTasks), found |-> Len(filteredTasks),
                   rows |-> filteredTasks]]

\* Variant: TaskList is handed the held list (tasks={tasks}) instead of
\* filteredTasks.
AssigneeMeRender_UnfilteredRows(ts, fs, m) ==
    LET hit == m.set /\ m.tasks = ts /\ m.filters = fs
        c   == searchTasksCall(JsArray(ts), JsObject(fs))
        filteredTasks == IF hit THEN m.value ELSE c.ret.val
    IN [tasks |-> IF hit THEN ts ELSE c.tasks.val,
        filters |-> IF hit THEN fs ELSE c.filters.val,
        memo |-> [set |-> TRUE, tasks |-> ts, filters |-> fs, value |-> filteredTasks],
        shown |-> [count |-> Len(filteredTasks), found |-> Len(filteredTasks),
                   rows |-> ts]]

\* Render of AssigneeMe: filteredTasks is the useMemo value, computed anew
\* when tasks or filters differ from the dependencies of the cached value.
AssigneeMeRender(ts, fs, m) ==
    LET hit == m.set /\ m.tasks = ts /\ m.filters = fs
        c   == searchTasksCall(JsArray(ts), JsObject(fs))
        filteredTasks == IF hit THEN m.value ELSE c.ret.val
    IN [tasks |-> IF hit THEN ts ELSE c.tasks.val,
        filters |-> IF hit THEN fs ELSE c.filters.val,
        memo |-> [set |-> TRUE, tasks |-> ts, filters |-> fs, value |-> filteredTasks],
        shown |-> [count |-> Len(filteredTasks), found |-> Len(filteredTasks),
                   rows |-> filteredTasks]]

RenderAssigneeMe ==
    LET r == AssigneeMeRender(tasks, filters, memo)
    IN /\ tasks' = r.tasks
       /\ filters' = r.filters
       /\ memo' = r.memo
       /\ shown' = r.shown

\* React renders the mounted view after a state update; after the first
\* render the mount effect (useEffect with no dependencies) starts the fetch.
Render ==
    /\ needsRender
    /\ route \in ListRoutes
    /\ IF route = "/tasks" THEN RenderTasks ELSE RenderAssigneeMe
    /\ fetch' = IF fetch = "idle" THEN "pending" ELSE fetch
    /\ needsRender' = FALSE
    /\ UNCHANGED <<route, searchVars, moduleVars, authVars, envVars, adminVars, twin, editVars>>

\* Variant: the response is handed over task by task and the view stores
\* what has arrived when the request is marked resolved, all but the last.
FetchResolve_Partial(data) ==
    /\ ~needsRender
    /\ fetch = "pending"
    /\ tasks' = SubSeq(data, 1, Len(data) - 1)
    /\ fetch' = "resolved"
    /\ needsRender' = TRUE
    /\ event' = [Ev("fetchResolve") EXCEPT !.data = data]
    /\ UNCHANGED <<route, filters, memo, shown, stale, searchVars, moduleVars, authVars, adminVars, twin, editVars>>

\* getTasks / getTasksByAssignee resolves: setTasks(data)
FetchResolve(data) ==
    /\ ~needsRender
    /\ fetch = "pending"
    /\ tasks' = data
    /\ fetch' = "resolved"
    /\ needsRender' = TRUE
    /\ event' = [Ev("fetchResolve") EXCEPT !.data = data]
    /\ UNCHANGED <<route, filters, memo, shown, stale, searchVars, moduleVars, authVars, adminVars, twin, editVars>>

\* getTasks / getTasksByAssignee rejects: the catch block logs with
\* console.error and sets no state
FetchReject ==
    /\ ~needsRender
    /\ fetch = "pending"
    /\ fetch' = "rejected"
    /\ event' = [Ev("fetchReject") EXCEPT !.console = TRUE]
    /\ UNCHANGED <<route, tasks, filters, needsRender, memo, shown, stale,
                   searchVars, moduleVars, authVars, adminVars, twin, editVars>>

\* Variant: the submitted filter is merged into the held one
\* (setFilters({...filters, ...newFilters}) with unset properties left out).
handleSearch_Merge(newFilters) ==
    /\ ~needsRender
    /\ route \in ListRoutes
    /\ filters' = [status   |-> IF newFilters.status = Undefined
                                THEN filters.status ELSE newFilters.status,
                   priority |-> IF newFilters.priority = Undefined
                                THEN filters.priority ELSE newFilters.priority]
    /\ needsRender' = TRUE
    /\ event' = [Ev("search") EXCEPT !.filter = newFilters]
    /\ UNCHANGED <<route, tasks, fetch, memo, shown, stale, searchVars, moduleVars, authVars, adminVars,
                   twin, editVars>>

\* TaskFilterForm submits: handleSearch(newFilters) is setFilters(newFilters)
handleSearch(newFilters) ==
    /\ ~needsRender
    /\ route \in ListRoutes
    /\ filters' = newFilters
    /\ needsRender' = TRUE
    /\ event' = [Ev("search") EXCEPT !.filter = newFilters]
    /\ UNCHANGED <<route, tasks, fetch, memo, shown, stale, searchVars, moduleVars, authVars, adminVars,
                   twin, editVars>>

\* Variant: the list is held outside the component, so the late result of
\* an unmounted view's request is written into the list on screen.
StaleFetchResolve_Applied(data) ==
    /\ ~needsRender
    /\ "fetch" \in stale
    /\ stale' \in {stale, stale \ {"fetch"}}
    /\ event' = [Ev("fetchResolve") EXCEPT !.stale = TRUE]
    /\ tasks' = IF route \in ListRoutes THEN data ELSE tasks
    /\ needsRender' = (route \in ListRoutes)
    /\ UNCHANGED <<route, filters, fetch, memo, shown, searchVars, moduleVars, authVars, adminVars,
                   twin, editVars>>

\* The fetch of a list view that was unmounted meanwhile resolves: its
\* setTasks belongs to the unmounted instance and reaches no mounted state.
\* Any number of such requests may be in flight.
StaleFetchResolve(data) ==
    /\ ~needsRender
    /\ "fetch" \in stale
    /\ stale' \in {stale, stale \ {"fetch"}}
    /\ event' = [Ev("fetchResolve") EXCEPT !.stale = TRUE]
    /\ UNCHANGED <<viewVars, searchVars, moduleVars, authVars, adminVars, twin, editVars>>

\* The fetch of an unmounted list view rejects: its catch block logs
StaleFetchReject ==
    /\ ~needsRender
    /\ "fetch" \in stale
    /\ stale' \in {stale, stale \ {"fetch"}}
    /\ event' = [Ev("fetchReject") EXCEPT !.stale = TRUE, !.console = TRUE]
    /\ UNCHANGED <<viewVars, searchVars, moduleVars, authVars, adminVars, twin, editVars>>

---------------------------------------------------------------------------
(* pages/Users.tsx and pages/Roles.tsx *)

\* The values a text field of a modal form is given: empty, blank, filled
FieldValues_Admin == {"", " ", "x"}

\* value.trim() of a field value
Trim(value) == IF value = " " THEN "" ELSE value

\* The fields of the create form (newUser / newRole) and of the edit form
\* (editUser / editRole) that a handler tests, and those each handler
\* requires.  The description of a role is optional and read by no test.
CreateFields(r) ==
    IF r = "/users" THEN {"username", "password", "fullName"}
    ELSE {"code", "name"}
EditFields(r) ==
    IF r = "/users" THEN {"username", "fullName"}
    ELSE {"code", "name"}
RequiredFields(op) ==
    CASE op = "createUser" -> {"username", "password", "fullName"}
      [] op = "updateUser" -> {"username", "fullName"}
      [] op \in {"createRole", "updateRole"} -> {"code", "name"}
      [] OTHER -> {}

\* useState of the form objects: every field the empty string
EmptyForm(fields) == [f \in fields |-> ""]

\* The state of a mounted Users / Roles beside loading and submitting:
\*   users, roles           the lists
\*   showCreate             showCreateModal / showAddModal
\*   showEdit, showAddRole  showEditModal, showAddRoleModal
\*   selected               selectedUser / selectedRole
\*   create, edit           newUser / newRole, editUser / editRole
\*   op                     the request of the running submit handler
\*   loads                  the loadData / loadRoles calls of the instance
\*   mutations              its mutating requests in flight
InitialPage(r) ==
    [users |-> NoList, roles |-> NoList,
     showCreate |-> FALSE, showEdit |-> FALSE, showAddRole |-> FALSE,
     selected |-> Null,
     create |-> EmptyForm(CreateFields(r)), edit |-> EmptyForm(EditFields(r)),
     op |-> "none", loads |-> 0, mutations |-> 0]

\* The router mounts Users or Roles: loading starts true, submitting false,
\* and the mount effect calls loadData / loadRoles.
NavigateAdmin(to) ==
    /\ to \in AdminRoutes
    /\ to # route
    /\ route' = to
    /\ event' = Ev("mount")
    /\ stale' = stale \cup InFlight
    /\ loading' = TRUE
    /\ submitting' = FALSE
    /\ flow' = "mountLoad"
    /\ page' = [InitialPage(to) EXCEPT !.loads = 1]
    /\ UNCHANGED <<tasks, filters, fetch, needsRender, memo, shown,
                   searchVars, authVars, moduleVars, twin, editVars>>

\* response.data || response || [] and the Array.isArray test: the list a
\* response gives, by its shape (an array, an object with the array under
\* data, anything else)
ListOf(shape, n) == [load |-> n, data |-> shape \in {"array", "wrapped"}]
Shapes == {"array", "wrapped", "other"}

\* What a submit handler does after the awaited reload: the alert of the
\* success, then it closes its modal and resets its form.
AfterSuccess(pg, r) ==
    CASE pg.op = "createUser" ->
           [pg EXCEPT !.showCreate = FALSE, !.create = EmptyForm(CreateFields(r))]
      [] pg.op = "updateUser" ->
           [pg EXCEPT !.showEdit = FALSE, !.selected = Null,
                      !.edit = EmptyForm(EditFields(r))]
      [] pg.op = "addRoleToUser" ->
           [pg EXCEPT !.selected = Null, !.showAddRole = FALSE]
      [] pg.op = "createRole" ->
           [pg EXCEPT !.showCreate = FALSE, !.create = EmptyForm(CreateFields(r))]
      [] pg.op = "updateRole" ->
           [pg EXCEPT !.showEdit = FALSE, !.selected = Null,
                      !.edit = EmptyForm(EditFields(r))]
      [] OTHER -> pg

\* loadData / loadRoles: the awaited requests resolve, the lists are set and
\* finally setLoading(false).  When a handler awaited the reload it goes on:
\* alert of the success, closing of its modal, finally setSubmitting(false).
LoadResolve(usersShape, rolesShape) ==
    /\ route \in AdminRoutes
    /\ flow \in {"mountLoad", "reload"}
    /\ route = "/roles" => usersShape = "array"
    /\ loading' = FALSE
    /\ submitting' = FALSE
    /\ flow' = "none"
    /\ LET loaded == [page EXCEPT
                        !.users = IF route = "/users"
                                  THEN ListOf(usersShape, page.loads) ELSE @,
                        !.roles = ListOf(rolesShape, page.loads)]
       IN page' = [(IF flow = "reload" THEN AfterSuccess(loaded, route) ELSE loaded)
                   EXCEPT !.op = "none"]
    /\ event' = [Ev("loadResolve") EXCEPT
                   !.alert = IF flow = "reload" THEN "success" ELSE "none"]
    /\ UNCHANGED <<viewVars, stale, searchVars, authVars, moduleVars, twin, editVars>>

\* Variant: setLoading(false) stands at the end of the try block instead of
\* in finally, so a failed load leaves loading true.
LoadReject_NoFinally(usersOk, rolesOk) ==
    /\ route \in AdminRoutes
    /\ flow \in {"mountLoad", "reload"}
    /\ ~(usersOk /\ rolesOk)
    /\ route = "/roles" => usersOk
    /\ loading' = TRUE
    /\ submitting' = FALSE
    /\ flow' = "none"
    /\ LET emptied == [page EXCEPT
                         !.users = IF route = "/users"
                                   THEN [load |-> page.loads, data |-> FALSE] ELSE @,
                         !.roles = [load |-> page.loads, data |-> FALSE]]
       IN page' = [(IF flow = "reload" THEN AfterSuccess(emptied, route) ELSE emptied)
                   EXCEPT !.op = "none"]
    /\ event' = [Ev("loadReject") EXCEPT
                   !.console = TRUE,
                   !.alert = IF flow = "reload" THEN "success" ELSE "none"]
    /\ UNCHANGED <<viewVars, stale, searchVars, authVars, moduleVars, twin, editVars>>

\* Variant: the two requests are awaited one by one, each with its own
\* catch: the list whose request failed keeps its old value.
LoadReject_OneByOne(usersOk, rolesOk) ==
    /\ route \in AdminRoutes
    /\ flow \in {"mountLoad", "reload"}
    /\ ~(usersOk /\ rolesOk)
    /\ route = "/roles" => usersOk
    /\ loading' = FALSE
    /\ submitting' = FALSE
    /\ flow' = "none"
    /\ LET partly == [page EXCEPT
                        !.users = IF route = "/users" /\ usersOk
                                  THEN [load |-> page.loads, data |-> TRUE] ELSE @,
                        !.roles = IF rolesOk
                                  THEN [load |-> page.loads, data |-> TRUE] ELSE @]
       IN page' = [(IF flow = "reload" THEN AfterSuccess(partly, route) ELSE partly)
                   EXCEPT !.op = "none"]
    /\ event' = [Ev("loadReject") EXCEPT
                   !.console = TRUE,
                   !.alert = IF flow = "reload" THEN "success" ELSE "none"]
    /\ UNCHANGED <<viewVars, stale, searchVars, authVars, moduleVars, twin, editVars>>

\* loadData / loadRoles: an awaited request rejects (of Promise.all in
\* Users: getUsers, getRoles or both); the catch block logs with
\* console.error and empties the lists, finally setLoading(false).
\* loadData does not rethrow, so a handler that awaited the reload goes on
\* as after a success.
LoadReject(usersOk, rolesOk) ==
    /\ route \in AdminRoutes
    /\ flow \in {"mountLoad", "reload"}
    /\ ~(usersOk /\ rolesOk)
    /\ route = "/roles" => usersOk
    /\ loading' = FALSE
    /\ submitting' = FALSE
    /\ flow' = "none"
    /\ LET emptied == [page EXCEPT
                         !.users = IF route = "/users"
                                   THEN [load |-> page.loads, data |-> FALSE] ELSE @,
                         !.roles = [load |-> page.loads, data |-> FALSE]]
       IN page' = [(IF flow = "reload" THEN AfterSuccess(emptied, route) ELSE emptied)
                   EXCEPT !.op = "none"]
    /\ event' = [Ev("loadReject") EXCEPT
                   !.console = TRUE,
                   !.alert = IF flow = "reload" THEN "success" ELSE "none"]
    /\ UNCHANGED <<viewVars, stale, searchVars, authVars, moduleVars, twin, editVars>>

\* The view is past its loading screen and no modal covers the page
PageOpen == route \in AdminRoutes /\ ~loading
NoModal == ~page.showCreate /\ ~page.showEdit /\ ~page.showAddRole

\* the list whose rows carry the buttons of an item
HasItems == IF route = "/users" THEN page.users.data ELSE page.roles.data

\* openCreateModal / openAddModal: the form is reset and the modal shown
OpenCreateModal ==
    /\ PageOpen /\ NoModal
    /\ page' = [page EXCEPT !.create = EmptyForm(CreateFields(route)),
                            !.showCreate = TRUE]
    /\ event' = Ev("openModal")
    /\ UNCHANGED <<viewVars, stale, loading, submitting, flow,
                   searchVars, authVars, moduleVars, twin, editVars>>

\* openEditModal(item): the item is selected, its values fill the form
OpenEditModal ==
    /\ PageOpen /\ NoModal /\ HasItems
    /\ ~submitting
    /\ page' = [page EXCEPT !.selected = "item",
                            !.edit = [f \in EditFields(route) |-> "x"],
                            !.showEdit = TRUE]
    /\ event' = Ev("openModal")
    /\ UNCHANGED <<viewVars, stale, loading, submitting, flow,
                   searchVars, authVars, moduleVars, twin, editVars>>

\* Users.openAddRoleModal(user)
OpenAddRoleModal ==
    /\ route = "/users"
    /\ PageOpen /\ NoModal /\ HasItems
    /\ ~submitting
    /\ page' = [page EXCEPT !.selected = "item", !.showAddRole = TRUE]
    /\ event' = Ev("openModal")
    /\ UNCHANGED <<viewVars, stale, loading, submitting, flow,
                   searchVars, authVars, moduleVars, twin, editVars>>

\* The Cancel / Close button of the shown modal.  Users: setShowCreateModal(false),
\* setShowEditModal(false), closeAddRoleModal; Roles: closeAddModal,
\* closeEditModal, which also reset the form and the selection.
CloseModal ==
    /\ PageOpen /\ ~NoModal
    /\ page' =
         IF page.showCreate
         THEN [page EXCEPT !.showCreate = FALSE,
                           !.create = IF route = "/roles"
                                      THEN EmptyForm(CreateFields(route)) ELSE @]
         ELSE IF page.showEdit
         THEN [page EXCEPT !.showEdit = FALSE,
                           !.selected = IF route = "/roles" THEN Null ELSE @,
                           !.edit = IF route = "/roles"
                                    THEN EmptyForm(EditFields(route)) ELSE @]
         ELSE [page EXCEPT !.selected = Null, !.showAddRole = FALSE]
    /\ event' = Ev("closeModal")
    /\ UNCHANGED <<viewVars, stale, loading, submitting, flow,
                   searchVars, authVars, moduleVars, twin, editVars>>

\* onChange of an input of the shown form
InputChange(field, value) ==
    /\ PageOpen
    /\ value \in FieldValues_Admin
    /\ \/ /\ page.showCreate
          /\ field \in CreateFields(route)
          /\ page' = [page EXCEPT !.create[field] = value]
       \/ /\ page.showEdit /\ page.selected # Null
          /\ field \in EditFields(route)
          /\ page' = [page EXCEPT !.edit[field] = value]
    /\ page' # page
    /\ event' = Ev("input")
    /\ UNCHANGED <<viewVars, stale, loading, submitting, flow,
                   searchVars, authVars, moduleVars, twin, editVars>>

\* Variant: the buttons and forms are not disabled while submitting.
Triggerable_NoDisabled(op) ==
    /\ PageOpen
    /\ op \in MutationOps(route)
    /\ CASE op \in {"createUser", "createRole"} -> page.showCreate
         [] op \in {"updateUser", "updateRole"} -> page.showEdit /\ page.selected # Null
         [] op = "addRoleToUser" ->
              page.showAddRole /\ page.selected # Null /\ page.roles.data
         [] OTHER -> NoModal /\ HasItems

\* The control that runs the handler of op is on screen and enabled: the
\* view is past the loading screen, the control is not disabled by
\* submitting, its modal is shown (create, edit, add role with a role to
\* add) or no modal covers the row (delete, remove role).
Triggerable(op) ==
    /\ PageOpen
    /\ ~submitting
    /\ op \in MutationOps(route)
    /\ CASE op \in {"createUser", "createRole"} -> page.showCreate
         [] op \in {"updateUser", "updateRole"} -> page.showEdit /\ page.selected # Null
         [] op = "addRoleToUser" ->
              page.showAddRole /\ page.selected # Null /\ page.roles.data
         [] OTHER -> NoModal /\ HasItems

\* the form a handler reads
FormOf(pg, op) ==
    IF op \in {"createUser", "createRole"} THEN pg.create ELSE pg.edit

\* Variant: the fields are tested without trim (!newUser.username || ...).
Blank_NoTrim(pg, op) ==
    \/ op \in {"updateUser", "updateRole", "addRoleToUser"} /\ pg.selected = Null
    \/ \E f \in RequiredFields(op) : FormOf(pg, op)[f] = ""

\* The test the handler returns early on: no selected item, or a required
\* field that is empty after trim
Blank(pg, op) ==
    \/ op \in {"updateUser", "updateRole", "addRoleToUser"} /\ pg.selected = Null
    \/ \E f \in RequiredFields(op) : Trim(FormOf(pg, op)[f]) = ""

\* A submit with a required field blank: the alert, then return
RejectBlank(op) ==
    /\ Triggerable(op)
    /\ Blank(page, op)
    /\ event' = [Ev("submitBlank") EXCEPT !.op = op, !.alert = "required"]
    /\ UNCHANGED <<viewVars, stale, adminVars, searchVars, authVars, moduleVars,
                   twin, editVars>>

\* handleDeleteUser / handleRemoveRole / handleDeleteRole: window.confirm
\* is answered with Cancel, the handler returns
DeclineConfirm(op) ==
    /\ Triggerable(op)
    /\ op \in {"deleteUser", "removeRoleFromUser", "deleteRole"}
    /\ event' = [Ev("declined") EXCEPT !.op = op]
    /\ UNCHANGED <<viewVars, stale, adminVars, searchVars, authVars, moduleVars,
                   twin, editVars>>

\* A handler starts its mutating request: setSubmitting(true), then the
\* request is awaited.
StartMutation(op) ==
    /\ Triggerable(op)
    /\ ~Blank(page, op)
    /\ page.loads < MaxLoads
    /\ submitting' = TRUE
    /\ flow' = "mutating"
    /\ page' = [page EXCEPT !.op = op, !.mutations = @ + 1]
    /\ event' = [Ev("submit") EXCEPT !.op = op]
    /\ UNCHANGED <<viewVars, stale, loading, searchVars, authVars, moduleVars, twin, editVars>>

\* The mutating request resolves: the handler awaits loadData / loadRoles,
\* which begins with setLoading(true).
MutationResolve ==
    /\ route \in AdminRoutes
    /\ flow = "mutating"
    /\ loading' = TRUE
    /\ flow' = "reload"
    /\ page' = [page EXCEPT !.mutations = @ - 1, !.loads = @ + 1]
    /\ event' = Ev("mutationResolve")
    /\ UNCHANGED <<viewVars, stale, submitting, searchVars, authVars, moduleVars, twin, editVars>>

\* Variant: setSubmitting(false) stands at the end of the try block instead
\* of in finally.
MutationReject_NoFinally ==
    /\ route \in AdminRoutes
    /\ flow = "mutating"
    /\ submitting' = TRUE
    /\ flow' = "none"
    /\ page' = [page EXCEPT !.mutations = @ - 1, !.op = "none"]
    /\ event' = [Ev("mutationReject") EXCEPT !.console = TRUE, !.alert = "failure"]
    /\ UNCHANGED <<viewVars, stale, loading, searchVars, authVars, moduleVars, twin, editVars>>

\* Variant: the modal is closed and the form reset in finally, after a
\* failure as after a success.
MutationReject_Closes ==
    /\ route \in AdminRoutes
    /\ flow = "mutating"
    /\ submitting' = FALSE
    /\ flow' = "none"
    /\ page' = [AfterSuccess(page, route) EXCEPT !.mutations = @ - 1, !.op = "none"]
    /\ event' = [Ev("mutationReject") EXCEPT !.console = TRUE, !.alert = "failure"]
    /\ UNCHANGED <<viewVars, stale, loading, searchVars, authVars, moduleVars, twin, editVars>>

\* The mutating request rejects: console.error, alert of the failure,
\* finally setSubmitting(false).
MutationReject ==
    /\ route \in AdminRoutes
    /\ flow = "mutating"
    /\ submitting' = FALSE
    /\ flow' = "none"
    /\ page' = [page EXCEPT !.mutations = @ - 1, !.op = "none"]
    /\ event' = [Ev("mutationReject") EXCEPT !.console = TRUE, !.alert = "failure"]
    /\ UNCHANGED <<viewVars, stale, loading, searchVars, authVars, moduleVars, twin, editVars>>

\* A request of an unmounted Users or Roles view settles.  Its handler runs
\* on with the state setters of the unmounted instance: a resolved mutation
\* starts the reload, a rejected one logs and alerts, a rejected load logs,
\* and a reload that ends lets the handler alert its success.
StaleAdminSettle(kind, ok, awaited) ==
    /\ kind \in {"load", "mutation"}
    /\ kind \in stale
    /\ \E gone \in BOOLEAN :
          stale' = (IF gone THEN stale \ {kind} ELSE stale)
                      \cup (IF kind = "mutation" /\ ok THEN {"load"} ELSE {})
    /\ event' = [Ev(IF kind = "load"
                    THEN (IF ok THEN "loadResolve" ELSE "loadReject")
                    ELSE (IF ok THEN "mutationResolve" ELSE "mutationReject"))
                 EXCEPT !.stale = TRUE,
                        !.console = ~ok,
                        !.alert = IF kind = "mutation"
                                  THEN (IF ok THEN "none" ELSE "failure")
                                  ELSE (IF awaited THEN "success" ELSE "none")]
    /\ UNCHANGED <<viewVars, searchVars, moduleVars, authVars, adminVars, twin, editVars>>

Next ==
    \/ \E to \in ListRoutes : Navigate(to)
    \/ Render
    \/ \E data \in TaskArrays(MaxFetchLen) : FetchResolve(data)
    \/ FetchReject
    \/ \E newFilters \in Filter : handleSearch(newFilters)
    \/ \E data \in TaskArrays(MaxFetchLen) : StaleFetchResolve(data)
    \/ StaleFetchReject

Spec == Init /\ [][Next]_vars

NextAdmin ==
    \/ \E to \in AdminRoutes : NavigateAdmin(to)
    \/ \E usersShape \in Shapes, rolesShape \in Shapes :
          LoadResolve(usersShape, rolesShape)
    \/ \E usersOk \in BOOLEAN, rolesOk \in BOOLEAN : LoadReject(usersOk, rolesOk)
    \/ OpenCreateModal
    \/ OpenEditModal
    \/ OpenAddRoleModal
    \/ CloseModal
    \/ \E field \in CreateFields(route) \cup EditFields(route) :
          InputChange(field, "x")
    \/ \E op \in MutationOps(route) : RejectBlank(op)
    \/ \E op \in MutationOps(route) : DeclineConfirm(op)
    \/ \E op \in MutationOps(route) : StartMutation(op)
    \/ MutationResolve
    \/ MutationReject
    \/ \E kind \in {"load", "mutation"}, ok \in BOOLEAN, awaited \in BOOLEAN :
          StaleAdminSettle(kind, ok, awaited)

SpecAdmin == Init /\ [][NextAdmin]_vars

\* Every backend request eventually resolves or rejects: the pending load
\* and the pending mutating request of the mounted view are settled.
SettleLoad ==
    \/ \E usersShape \in Shapes, rolesShape \in Shapes :
          LoadResolve(usersShape, rolesShape)
    \/ \E usersOk \in BOOLEAN, rolesOk \in BOOLEAN : LoadReject(usersOk, rolesOk)
SettleMutation == MutationResolve \/ MutationReject

SpecAdminFair ==
    Init /\ [][NextAdmin]_vars /\ WF_vars(SettleLoad) /\ WF_vars(SettleMutation)

\* The forms of Users and Roles with every value a field can be given.  A
\* request of an unmounted instance no longer reaches the mounted one
\* (StaleAdminSettle leaves loading, submitting, flow and page alone), so
\* its settling is left out here.
NextForms ==
    \/ \E to \in AdminRoutes : NavigateAdmin(to)
    \/ \E usersShape \in Shapes, rolesShape \in Shapes :
          LoadResolve(usersShape, rolesShape)
    \/ \E usersOk \in BOOLEAN, rolesOk \in BOOLEAN : LoadReject(usersOk, rolesOk)
    \/ OpenCreateModal
    \/ OpenEditModal
    \/ OpenAddRoleModal
    \/ CloseModal
    \/ \E field \in CreateFields(route) \cup EditFields(route) :
          \E value \in FieldValues_Admin : InputChange(field, value)
    \/ \E op \in MutationOps(route) : RejectBlank(op)
    \/ \E op \in MutationOps(route) : DeclineConfirm(op)
    \/ \E op \in MutationOps(route) : StartMutation(op)
    \/ MutationResolve
    \/ MutationReject

SpecForms == Init /\ [][NextForms]_vars

---------------------------------------------------------------------------
(* Tasks and AssigneeMe side by side: the variables of the list view hold *)
(* the Tasks instance, twin holds the AssigneeMe instance.  Both are given *)
(* the same fetched data and the same submitted filters, step by step.    *)

InitPair ==
    /\ argTasks = JsArray(<<>>)
    /\ argFilters = JsObject(EmptyFilter)
    /\ ret = Return(<<>>)
    /\ pc = "ready"
    /\ route = "/tasks"
    /\ tasks = <<>>
    /\ filters = EmptyFilter
    /\ fetch = "idle"
    /\ needsRender = TRUE
    /\ memo = NoMemo
    /\ shown = NoScreen
    /\ twin = NoTwin
    /\ NoEnv /\ NoAdmin /\ NoEdit /\ NoAuth

\* Both instances render; after the first render both mount effects start
\* their fetch.
PairRender ==
    /\ needsRender
    /\ LET r == TasksRender(tasks, filters)
           a == AssigneeMeRender(twin.tasks, twin.filters, twin.memo)
       IN /\ tasks' = r.tasks
          /\ filters' = r.filters
          /\ shown' = r.shown
          /\ twin' = [tasks |-> a.tasks, filters |-> a.filters,
                      memo |-> a.memo, shown |-> a.shown]
    /\ fetch' = IF fetch = "idle" THEN "pending" ELSE fetch
    /\ needsRender' = FALSE
    /\ UNCHANGED <<route, memo, searchVars, moduleVars, authVars, envVars, adminVars, editVars>>

\* getTasks and getTasksByAssignee resolve with the same data
PairFetchResolve(data) ==
    /\ ~needsRender
    /\ fetch = "pending"
    /\ tasks' = data
    /\ twin' = [twin EXCEPT !.tasks = data]
    /\ fetch' = "resolved"
    /\ needsRender' = TRUE
    /\ event' = [Ev("fetchResolve") EXCEPT !.data = data]
    /\ UNCHANGED <<route, filters, memo, shown, stale, searchVars, moduleVars, authVars, adminVars, editVars>>

\* getTasks and getTasksByAssignee reject: both catch blocks log
PairFetchReject ==
    /\ ~needsRender
    /\ fetch = "pending"
    /\ fetch' = "rejected"
    /\ event' = [Ev("fetchReject") EXCEPT !.console = TRUE]
    /\ UNCHANGED <<route, tasks, filters, needsRender, memo, shown, stale, twin,
                   searchVars, moduleVars, authVars, adminVars, editVars>>

\* The same filter is submitted in both TaskFilterForms
PairHandleSearch(newFilters) ==
    /\ ~needsRender
    /\ filters' = newFilters
    /\ twin' = [twin EXCEPT !.filters = newFilters]
    /\ needsRender' = TRUE
    /\ event' = [Ev("search") EXCEPT !.filter = newFilters]
    /\ UNCHANGED <<route, tasks, fetch, memo, shown, stale, searchVars, moduleVars, authVars, adminVars,
                   editVars>>

NextPair ==
    \/ PairRender
    \/ \E data \in TaskArrays(MaxFetchLen) : PairFetchResolve(data)
    \/ PairFetchReject
    \/ \E newFilters \in Filter : PairHandleSearch(newFilters)

SpecPair == InitPair /\ [][NextPair]_vars

---------------------------------------------------------------------------
(* UpdateTask (/update/:id): the edit form, its yup schema and onSubmit *)

\* the days a date field can name
Days == 1..MaxDay

\* the values a date field is given in the model
DateValues ==
    {UndefinedDate, EmptyDate, DateValue("malformed", 0)}
       \cup { DateValue(k, d) : k \in {"invalid", "date"}, d \in Days }

\* titles: undefined, empty, of two characters, of three characters
Titles == {Undefined, "", "ab", "abc"}

\* the fields of the form the model keeps, and the values each is given
FormFields == {"title", "start_date", "due_date", "status"}
FieldValues(field) ==
    IF field = "title" THEN Titles
    ELSE IF field = "status" THEN Status \cup {""}
    ELSE DateValues

\* a task id: a number or a string
JsNumber(n) == [type |-> "number", val |-> n]
JsString(str) == [type |-> "string", val |-> str]
NaN == [type |-> "NaN", val |-> 0]

\* the decimal numerals of 0..9
Numeral == [n \in 0..9 |->
              CASE n = 0 -> "0" [] n = 1 -> "1" [] n = 2 -> "2" [] n = 3 -> "3"
                [] n = 4 -> "4" [] n = 5 -> "5" [] n = 6 -> "6" [] n = 7 -> "7"
                [] n = 8 -> "8" [] n = 9 -> "9"]

\* the ids of the tasks the list views show: a numeric one and a string one
TaskIds == {JsNumber(7), JsString("abc")}

\* `${taskId}` of the template literal in handleEdit
ToString(v) == IF v.type = "string" THEN v.val ELSE Numeral[v.val]

\* Number(id) of a route parameter: the number a numeral names, NaN of any
\* other non-empty string
NumberOf(str) ==
    IF \E n \in DOMAIN Numeral : Numeral[n] = str
    THEN JsNumber(CHOOSE n \in DOMAIN Numeral : Numeral[n] = str)
    ELSE NaN

\* the route parameter id: missing, or the id of a task written out
Ids == {Undefined} \cup { ToString(v) : v \in TaskIds }

InvalidDate == DateValue("invalid", 0)

\* new Date(value) of a field value.  Of a string that matches the pattern
\* but names no calendar day the engine makes an Invalid Date, or the day
\* it rolls over to when it is lenient.
NewDate(value, lenient) ==
    IF value.kind = "date" THEN DateValue("date", value.day)
    ELSE IF value.kind = "invalid" /\ lenient THEN DateValue("date", value.day)
    ELSE InvalidDate

\* a >= b of two Date objects: the comparison of their time values, false
\* when either is NaN
DateGE(a, b) == a.kind = "date" /\ b.kind = "date" /\ a.day >= b.day

\* Variant: the comparison is a <= b.
DateLE(a, b) == a.kind = "date" /\ b.kind = "date" /\ a.day <= b.day

\* !value of a field value
Falsy(value) == value.kind \in {"undefined", "empty"}

\* string().matches(/^\d{4}-\d{2}-\d{2}$/) on a value that is not undefined
MatchesDatePattern(value) == value.kind \in {"invalid", "date"}

\* title: string().required().min(3).max(100)
ValidTitle(title) == title = "abc"

\* start_date: string().required().matches(pattern)
ValidStartDate(value) == ~Falsy(value) /\ MatchesDatePattern(value)

\* Variant: the test compares the other way round
\* (new Date(value) <= new Date(start_date)).
DueDateTest_Reversed(value, start_date, lenient) ==
    IF Falsy(value) THEN TRUE
    ELSE DateLE(NewDate(value, lenient), NewDate(start_date, lenient))

\* the test "due_date-after-start_date"
DueDateTest(value, start_date, lenient) ==
    IF Falsy(value) THEN TRUE
    ELSE DateGE(NewDate(value, lenient), NewDate(start_date, lenient))

\* due_date: string().optional().matches(pattern).test(...); the tests of
\* an optional field are skipped only when the value is undefined
ValidDueDate(value, start_date, lenient) ==
    \/ value.kind = "undefined"
    \/ MatchesDatePattern(value) /\ DueDateTest(value, start_date, lenient)

\* status: mixed().required().oneOf(["to_do", "in_progress", "done"])
ValidStatus(status) == status \in Status

\* validationSchema on the values of the form
Valid(data, lenient) ==
    /\ ValidTitle(data.title)
    /\ ValidStartDate(data.start_date)
    /\ ValidDueDate(data.due_date, data.start_date, lenient)
    /\ ValidStatus(data.status)

\* Variant: a task that is not to_do counts as completed.
CompletedDate_NotToDo(status) == status # "to_do"

\* completed_date of taskData: whether it is a Date (true) or undefined
CompletedDate(status) == status = "done"

\* handleEdit(taskId) of a list view, or the address bar, navigates to
\* /update/<taskId>: the router mounts UpdateTask with the route parameter
\* id; the mount effect starts getTaskById(id), or sets the error when
\* there is no id.
OpenEdit(taskId) ==
    /\ route # "/update"
    /\ ~needsRender
    /\ route' = "/update"
    /\ editTask' = taskId
    /\ editId' = IF taskId = NoId THEN Undefined ELSE ToString(taskId)
    /\ editPhase' = IF taskId = NoId THEN "error" ELSE "loading"
    /\ form' = NoForm
    /\ event' = Ev("mount")
    /\ stale' = stale \cup InFlight
    /\ UNCHANGED <<tasks, filters, fetch, needsRender, memo, shown, sent,
                   searchVars, moduleVars, authVars, adminVars, twin>>

\* getTaskById resolves: setValue of every field from the task; a date of
\* the task is written as its day, a missing one as the empty string
EditFetchResolve(title, start, due, status) ==
    /\ editPhase = "loading"
    /\ title \in {"", "abc"}
    /\ start.kind \in {"empty", "date"}
    /\ due.kind \in {"empty", "date"}
    /\ form' = [title |-> title, start_date |-> start, due_date |-> due,
                status |-> status]
    /\ editPhase' = "form"
    /\ event' = Ev("fetchResolve")
    /\ UNCHANGED <<viewVars, stale, sent, editId, editTask, searchVars, moduleVars, authVars, adminVars, twin>>

\* getTaskById rejects: console.error and setError
EditFetchReject ==
    /\ editPhase = "loading"
    /\ editPhase' = "error"
    /\ event' = [Ev("fetchReject") EXCEPT !.console = TRUE]
    /\ UNCHANGED <<viewVars, stale, sent, editId, editTask, form, searchVars, moduleVars, authVars, adminVars, twin>>

\* The user changes one field of the form
EditInput(field, value) ==
    /\ editPhase = "form"
    /\ field \in FormFields
    /\ value \in FieldValues(field)
    /\ form' = [form EXCEPT ![field] = value]
    /\ form' # form
    /\ event' = Ev("input")
    /\ UNCHANGED <<viewVars, stale, sent, editId, editTask, editPhase, searchVars, moduleVars, authVars, adminVars, twin>>

\* The form is submitted: handleSubmit runs the resolver and calls onSubmit
\* only with valid values.  onSubmit builds taskData and awaits updateTask.
EditSubmit(lenient) ==
    /\ editPhase = "form"
    /\ IF Valid(form, lenient) /\ editId # Undefined
       THEN /\ sent' = [called     |-> TRUE,
                        id         |-> NumberOf(editId),
                        start_date |-> NewDate(form.start_date, lenient),
                        due_date   |-> IF Falsy(form.due_date) THEN UndefinedDate
                                       ELSE NewDate(form.due_date, lenient),
                        status     |-> form.status,
                        completed  |-> CompletedDate(form.status)]
            /\ editPhase' = "updating"
            /\ event' = [Ev("submit") EXCEPT !.op = "updateTask"]
       ELSE /\ event' = Ev("submitInvalid")
            /\ UNCHANGED <<sent, editPhase>>
    /\ UNCHANGED <<viewVars, stale, editId, editTask, form, searchVars, moduleVars, authVars, adminVars, twin>>

\* updateTask resolves: navigate("/tasks") mounts Tasks, then the alert
EditUpdateResolve ==
    /\ editPhase = "updating"
    /\ route' = "/tasks"
    /\ tasks' = <<>>
    /\ filters' = EmptyFilter
    /\ fetch' = "idle"
    /\ memo' = NoMemo
    /\ needsRender' = TRUE
    /\ editPhase' = "unmounted"
    /\ editId' = Undefined
    /\ editTask' = NoId
    /\ form' = NoForm
    /\ sent' = NoSent
    /\ event' = [Ev("mutationResolve") EXCEPT !.alert = "success"]
    /\ UNCHANGED <<shown, stale, searchVars, moduleVars, authVars, adminVars, twin>>

\* Variant: the catch block of onSubmit also leaves the page
\* (navigate("/tasks") stands after the try/catch).
EditUpdateReject_Navigates ==
    /\ editPhase = "updating"
    /\ route' = "/tasks"
    /\ tasks' = <<>>
    /\ filters' = EmptyFilter
    /\ fetch' = "idle"
    /\ memo' = NoMemo
    /\ needsRender' = TRUE
    /\ editPhase' = "unmounted"
    /\ editId' = Undefined
    /\ editTask' = NoId
    /\ form' = NoForm
    /\ sent' = NoSent
    /\ event' = [Ev("mutationReject") EXCEPT !.console = TRUE, !.alert = "failure"]
    /\ UNCHANGED <<shown, stale, searchVars, moduleVars, authVars, adminVars, twin>>

\* updateTask rejects: console.error and the alert; the form stays
EditUpdateReject ==
    /\ editPhase = "updating"
    /\ editPhase' = "form"
    /\ sent' = NoSent
    /\ event' = [Ev("mutationReject") EXCEPT !.console = TRUE, !.alert = "failure"]
    /\ UNCHANGED <<viewVars, stale, editId, editTask, form, searchVars, moduleVars, authVars, adminVars, twin>>

\* The Cancel button of the form (also while the update is awaited) or the
\* "Back to Tasks" button of the error page: navigate("/tasks") mounts
\* Tasks; an awaited update stays in flight.
EditCancel ==
    /\ editPhase \in {"form", "updating", "error"}
    /\ route' = "/tasks"
    /\ tasks' = <<>>
    /\ filters' = EmptyFilter
    /\ fetch' = "idle"
    /\ memo' = NoMemo
    /\ needsRender' = TRUE
    /\ editPhase' = "unmounted"
    /\ editId' = Undefined
    /\ editTask' = NoId
    /\ form' = NoForm
    /\ sent' = NoSent
    /\ event' = Ev("cancel")
    /\ stale' = stale \cup InFlight
    /\ UNCHANGED <<shown, searchVars, moduleVars, authVars, adminVars, twin>>

\* The update of a left edit page resolves: its onSubmit goes on with
\* navigate("/tasks") and the alert.  An edit page opened meanwhile is
\* unmounted by it; on /tasks the navigation changes nothing.
StaleUpdateResolve ==
    /\ "update" \in stale
    /\ ~needsRender
    /\ stale' \in {stale, stale \ {"update"}}
    /\ event' = [Ev("mutationResolve") EXCEPT !.stale = TRUE, !.alert = "success"]
    /\ IF route = "/tasks"
       THEN UNCHANGED <<viewVars, editVars>>
       ELSE /\ route' = "/tasks"
            /\ tasks' = <<>>
            /\ filters' = EmptyFilter
            /\ fetch' = "idle"
            /\ memo' = NoMemo
            /\ needsRender' = TRUE
            /\ editPhase' = "unmounted"
            /\ editId' = Undefined
            /\ editTask' = NoId
            /\ form' = NoForm
            /\ sent' = NoSent
            /\ shown' = shown
    /\ UNCHANGED <<searchVars, moduleVars, authVars, adminVars, twin>>

\* The update of a left edit page rejects: console.error and the alert
StaleUpdateReject ==
    /\ "update" \in stale
    /\ stale' \in {stale, stale \ {"update"}}
    /\ event' = [Ev("mutationReject") EXCEPT !.stale = TRUE, !.console = TRUE,
                                              !.alert = "failure"]
    /\ UNCHANGED <<viewVars, editVars, searchVars, moduleVars, authVars, adminVars, twin>>

NextEdit ==
    \/ \E taskId \in TaskIds \cup {NoId} : OpenEdit(taskId)
    \/ \E title \in Titles, start \in DateValues, due \in DateValues,
          status \in Status : EditFetchResolve(title, start, due, status)
    \/ EditFetchReject
    \/ \E field \in FormFields :
          \E value \in FieldValues(field) : EditInput(field, value)
    \/ \E lenient \in BOOLEAN : EditSubmit(lenient)
    \/ EditUpdateResolve
    \/ EditUpdateReject
    \/ EditCancel
    \/ StaleUpdateResolve
    \/ StaleUpdateReject
    \/ Render

SpecEdit == Init /\ [][NextEdit]_vars

---------------------------------------------------------------------------
(* TaskManagement and Navigation: the router and the auth store *)

\* the pages the claim about access names
ProtectedRoutes == {"/tasks", "/create", "/update", "/assignee-me"}

\* the addresses a visitor enters or follows in the model
Paths == {"/", "/login", "/tasks", "/create", "/assignee-me", "/nowhere"}

\* <Routes>: the route whose element is rendered for a path.  No route
\* reads the logged-in user.
RouteElement(path) ==
    IF path \in {"/", "/login"} THEN "/login"
    ELSE IF path \in {"/tasks", "/create", "/assignee-me", "/customer", "/users", "/roles"}
         THEN path
    ELSE "*"

\* The address bar, a Link or navigate(path): the router unmounts the
\* component on screen and mounts the element of the matching route.
Goto(path) ==
    /\ ~needsRender
    /\ path \in Paths
    /\ RouteElement(path) # route
    /\ route' = RouteElement(path)
    /\ tasks' = <<>>
    /\ filters' = EmptyFilter
    /\ fetch' = "idle"
    /\ memo' = NoMemo
    /\ needsRender' = (route' \in ListRoutes)
    /\ editId' = Undefined
    /\ editTask' = NoId
    /\ editPhase' = "unmounted"
    /\ form' = NoForm
    /\ sent' = NoSent
    /\ event' = Ev("mount")
    /\ stale' = stale \cup InFlight
    /\ UNCHANGED <<shown, searchVars, moduleVars, authVars, adminVars, twin>>

\* Login.onSubmit, login resolves: the store holds the user and the login
\* navigates to /tasks with the navigate it was handed.
LoginResolve ==
    /\ route = "/login"
    /\ loggedInUser' = "user"
    /\ route' = "/tasks"
    /\ tasks' = <<>>
    /\ filters' = EmptyFilter
    /\ fetch' = "idle"
    /\ memo' = NoMemo
    /\ needsRender' = TRUE
    /\ event' = Ev("loginResolve")
    /\ UNCHANGED <<shown, stale, searchVars, moduleVars, adminVars, twin, editVars>>

\* Login.onSubmit, login rejects: console.error and the alert
LoginReject ==
    /\ route = "/login"
    /\ event' = [Ev("loginReject") EXCEPT !.console = TRUE, !.alert = "failure"]
    /\ UNCHANGED <<viewVars, stale, searchVars, moduleVars, authVars, adminVars, twin, editVars>>

\* The Logout button of Navigation, rendered for a logged-in user on a
\* page of the application: logOut() and navigate("/login").
Logout ==
    /\ ~needsRender
    /\ loggedInUser # Null
    /\ route \notin {"/login", "*"}
    /\ loggedInUser' = Null
    /\ route' = "/login"
    /\ tasks' = <<>>
    /\ filters' = EmptyFilter
    /\ fetch' = "idle"
    /\ memo' = NoMemo
    /\ needsRender' = FALSE
    /\ editId' = Undefined
    /\ editTask' = NoId
    /\ editPhase' = "unmounted"
    /\ form' = NoForm
    /\ sent' = NoSent
    /\ event' = Ev("logout")
    /\ stale' = stale \cup InFlight
    /\ UNCHANGED <<shown, searchVars, moduleVars, adminVars, twin>>

NextAuth ==
    \/ \E path \in Paths : Goto(path)
    \/ \E taskId \in TaskIds : OpenEdit(taskId)
    \/ LoginResolve
    \/ LoginReject
    \/ Logout
    \/ Render
    \/ \E data \in TaskArrays(MaxFetchLen) : FetchResolve(data)
    \/ FetchReject
    \/ \E newFilters \in Filter : handleSearch(newFilters)

SpecAuth == Init /\ [][NextAuth]_vars

---------------------------------------------------------------------------
(* Properties of the views, checked under Spec *)

\* C7: a render's calls of searchTasks leave the task array and the filter
\* they were handed, and so the view's tasks and filters, as they were.
C7_InputsUnchanged ==
    [][(needsRender /\ ~needsRender') => (tasks' = tasks /\ filters' = filters)]_vars

\* a render, after the fetch delivered a task and a filter was submitted,
\* that filtered the task out: the view still holds it
C7_Witness ==
    /\ ~needsRender
    /\ route \in ListRoutes
    /\ fetch = "resolved"
    /\ Len(tasks) = 1
    /\ shown.rows = <<>>
    /\ Truthy(filters.status)

\* the mounted list view has rendered its current state
Rendered == route \in ListRoutes /\ ~needsRender

\* C11: once the fetch of a mounted list view has failed, the view holds
\* the empty list, its screen shows no row and the count 0, and
\* searchTasks returns the empty list from the held list for every filter
\* without throwing.
C11_FetchFailureMeansEmpty ==
    (route \in ListRoutes /\ fetch = "rejected") =>
        /\ tasks = <<>>
        /\ shown.rows = <<>>
        /\ shown.count = 0
        /\ shown.found = 0
        /\ \A f \in Filter :
              searchTasksCall(JsArray(tasks), JsObject(f)).ret = Return(<<>>)

\* a view whose fetch failed, rendered again after a filter was submitted
C11_Witness ==
    /\ Rendered
    /\ fetch = "rejected"
    /\ Truthy(filters.status)
    /\ event.kind = "search"
    /\ shown.count = 0

\* C12: the result of a request that belongs to an unmounted (superseded)
\* view is dropped when it arrives: the step leaves the mounted view's
\* list, filter, fetch state and screen as they were.
C12_StaleResultDiscarded ==
    [][(event' # event /\ event'.stale) => UNCHANGED viewVars]_vars

\* the fetch of a left view resolved while the current view, whose own
\* fetch had delivered a task, was on screen
C12_Witness ==
    /\ Rendered
    /\ event.kind = "fetchResolve"
    /\ event.stale
    /\ fetch = "resolved"
    /\ Len(tasks) = 1

\* C13: in every rendered state the count shown, the number of rows handed
\* to TaskList and the length of searchTasks(tasks, filters) are equal.
C13_CountMatchesRows ==
    Rendered =>
        /\ shown.count = Len(shown.rows)
        /\ shown.found = Len(shown.rows)
        /\ Len(shown.rows) = Len(searchTasks(tasks, filters))

\* a rendered Tasks view holding a task that the filter rejects
C13_Witness ==
    /\ Rendered
    /\ route = "/tasks"
    /\ Len(tasks) = 1
    /\ Truthy(filters.priority)
    /\ shown.count = 0

\* C14: in every rendered state the rows shown are searchTasks of the
\* view's current tasks and current filter.
C14_ShownIsCurrent ==
    Rendered => shown.rows = searchTasks(tasks, filters)

\* AssigneeMe rendered after a filter submission that changed the result
\* cached by useMemo
C14_Witness ==
    /\ Rendered
    /\ route = "/assignee-me"
    /\ event.kind = "search"
    /\ memo.set
    /\ Len(tasks) = 1
    /\ shown.rows = <<>>

\* C17: the held list is the empty list until the view's own fetch has
\* resolved; the step in which it resolves stores the complete data of that
\* fetch, and the held list changes in no other step except to the empty
\* list of a newly mounted view.
C17_FetchAtomic ==
    [][/\ (route' \in ListRoutes /\ fetch' # "resolved" => tasks' = <<>>)
       /\ (fetch # "resolved" /\ fetch' = "resolved" =>
              /\ event'.kind = "fetchResolve" /\ ~event'.stale
              /\ tasks' = event'.data)
       /\ (tasks' # tasks =>
              \/ (route' # route /\ tasks' = <<>>)
              \/ (fetch = "pending" /\ fetch' = "resolved"))]_vars

\* the fetch resolved with a task and the view holds exactly that data
C17_Witness ==
    /\ route \in ListRoutes
    /\ event.kind = "fetchResolve"
    /\ ~event.stale
    /\ Len(event.data) = 1
    /\ tasks = event.data

\* C18: a submission of the search form leaves the submitted filter as the
\* held filter, whatever was held before, and leaves the held list alone.
C18_FilterReplaced ==
    [][(event'.kind = "search" /\ ~needsRender /\ needsRender') =>
          (filters' = event'.filter /\ tasks' = tasks)]_vars

\* a submission that unset a property the held filter had set, with a
\* task held
C18_Witness ==
    /\ route \in ListRoutes
    /\ needsRender
    /\ event.kind = "search"
    /\ event.filter.status = Undefined
    /\ event.filter.priority \in Priority
    /\ filters = event.filter
    /\ Len(shown.rows) = 0
    /\ Len(tasks) = 1

---------------------------------------------------------------------------
(* Properties of the Users and Roles views, checked under SpecAdmin *)

\* the events that are failures at the boundary
Failure(e) == e.kind \in {"fetchReject", "loadReject", "mutationReject"}

\* C16: a Users or Roles view starts with loading true; loading is true
\* exactly while a load is awaited; it turns false only in the step in
\* which a load ends, resolved or rejected, and true again only in the step
\* in which a mutating request resolved and the reload starts.
C16_LoadingLoaded ==
    [][route' \in AdminRoutes =>
          /\ (route' # route => loading')
          /\ (loading' <=> flow' \in {"mountLoad", "reload"})
          /\ (route' = route /\ loading /\ ~loading' =>
                event'.kind \in {"loadResolve", "loadReject"} /\ ~event'.stale)
          /\ (route' = route /\ ~loading /\ loading' =>
                event'.kind = "mutationResolve" /\ ~event'.stale)
          /\ (event' # event /\ ~event'.stale
                /\ event'.kind \in {"loadResolve", "loadReject"} => ~loading')
          /\ (event' # event /\ ~event'.stale
                /\ event'.kind = "mutationResolve" => loading')]_vars

\* a view back in Loaded after the reload that followed a mutating request
\* was rejected
C16_Witness ==
    /\ route \in AdminRoutes
    /\ event.kind = "loadReject"
    /\ ~event.stale
    /\ event.alert = "success"
    /\ ~loading
    /\ ~submitting

\* C20: every failure at the boundary is reported by an alert and written
\* to the console.
C20_FailureAlertedAndLogged ==
    Failure(event) => (event.console /\ event.alert = "failure")

---------------------------------------------------------------------------
(* Property of Tasks beside AssigneeMe, checked under SpecPair *)

\* C15: given the same fetched data and the same submitted filters, Tasks
\* and AssigneeMe show the same rows and the same counts after every
\* render, and they hold the same list and the same filter.
C15_ViewsFilterIdentically ==
    ~needsRender =>
        /\ shown.rows = twin.shown.rows
        /\ shown.count = twin.shown.count
        /\ shown.found = twin.shown.found
        /\ tasks = twin.tasks
        /\ filters = twin.filters

\* both rendered after a filter on status was submitted that the fetched
\* task does not pass, AssigneeMe through useMemo
C15_Witness ==
    /\ ~needsRender
    /\ route = "/tasks"
    /\ fetch = "resolved"
    /\ Len(twin.tasks) = 1
    /\ twin.memo.set
    /\ Truthy(twin.memo.filters.status)
    /\ event.kind = "search"
    /\ twin.shown.rows = <<>>
    /\ shown.count = 0

---------------------------------------------------------------------------
(* Property of the edit form, checked under SpecEdit *)

\* C19: whenever updateTask has been called, the task handed to it has no
\* due_date, or both its dates are dates and the due_date is not earlier
\* than the start_date.
C19_DueNotBeforeStart ==
    sent.called =>
        \/ sent.due_date = UndefinedDate
        \/ /\ sent.due_date.kind = "date"
           /\ sent.start_date.kind = "date"
           /\ sent.due_date.day >= sent.start_date.day

\* updateTask called with a due_date equal to the start_date
C19_Witness ==
    /\ sent.called
    /\ editPhase = "updating"
    /\ sent.due_date.kind = "date"
    /\ sent.due_date = sent.start_date
    /\ form.due_date.kind = "date"

\* C21: the task handed to updateTask carries the id of the task the edit
\* page was opened for, a number or a string.
C21_IdPreserved ==
    sent.called => sent.id = editTask

\* C29: the task handed to updateTask has a completed_date exactly when
\* its status is done.
C29_CompletedIffDone ==
    sent.called =>
        /\ sent.status \in Status
        /\ (sent.completed <=> sent.status = "done")

\* updateTask called with a task that was set to done in the form
C29_Witness ==
    /\ sent.called
    /\ editPhase = "updating"
    /\ form.status = "done"
    /\ sent.status = "done"
    /\ sent.completed

\* C30: a rejected update leaves the page on the edit form; the page leaves
\* for /tasks while an update is awaited only when that update resolved (or
\* the user cancelled); an update is sent only from the shown form, and the
\* form is shown only after the task was loaded (or again after a rejected
\* update), never when there is no id.
C30_LeavesOnlyOnSuccess ==
    [][/\ (event' # event /\ event'.kind = "mutationReject" /\ ~event'.stale =>
              route' = route /\ editPhase = "updating" /\ editPhase' = "form")
       /\ (editPhase = "updating" /\ route' # route =>
              event'.kind \in {"mutationResolve", "cancel"})
       /\ (editPhase # "updating" /\ editPhase' = "updating" =>
              editPhase = "form" /\ sent'.called)
       /\ (editPhase # "form" /\ editPhase' = "form" =>
              \/ editPhase = "loading" /\ event'.kind = "fetchResolve"
              \/ editPhase = "updating" /\ event'.kind = "mutationReject")
       /\ (route' = "/update" /\ editId' = Undefined => editPhase' = "error")]_vars

\* the update was rejected and the edit form is on screen again
C30_Witness ==
    /\ route = "/update"
    /\ editPhase = "form"
    /\ event.kind = "mutationReject"
    /\ ~event.stale
    /\ event.alert = "failure"
    /\ ~sent.called

---------------------------------------------------------------------------
(* Property of the router, checked under SpecAuth *)

\* C22: while nobody is logged in, no protected page (/tasks, /create,
\* /update/:id, /assignee-me) is on screen.
C22_ProtectedNeedsLogin ==
    loggedInUser = Null => route \notin ProtectedRoutes

\* C23: the exported apiClient is the client the mode setting names.
C23_ClientMatchesMode ==
    apiClient = (IF mode = "simple" THEN "apiClientSimple" ELSE "apiClientAdvanced")


\* What the mounted Users / Roles shows and holds, beside the bookkeeping
\* of its requests
ViewState(pg) ==
    [users |-> pg.users, roles |-> pg.roles,
     showCreate |-> pg.showCreate, showEdit |-> pg.showEdit,
     showAddRole |-> pg.showAddRole, selected |-> pg.selected,
     create |-> pg.create, edit |-> pg.edit]

C25_NeverStuck ==
    (route \in AdminRoutes /\ (loading \/ submitting)) ~> (~loading /\ ~submitting)

\* C25 witness: a handler has ended on its failure path, loading and
\* submitting are false again.
C25_Witness ==
    /\ route \in AdminRoutes
    /\ event.kind = "mutationReject" /\ ~event.stale
    /\ ~loading /\ ~submitting /\ flow = "none"

\* C26: a submit with a required field blank after trimming starts no
\* request and changes nothing of the view: only the alert is raised.
C26_BlankSubmitNoEffect ==
    [][ (/\ event' # event
         /\ event'.kind \in {"submit", "submitBlank"}
         /\ \E f \in RequiredFields(event'.op) :
               Trim(FormOf(page, event'.op)[f]) = "")
        => /\ event'.kind = "submitBlank"
           /\ event'.alert = "required"
           /\ UNCHANGED <<loading, submitting, flow, page, stale>> ]_vars

\* C26 witness: the create form of Users was submitted with a field of
\* spaces only; the modal, the form and the flags are as they were.
C26_Witness ==
    /\ route = "/users"
    /\ event.kind = "submitBlank" /\ event.op = "createUser"
    /\ page.showCreate /\ ~submitting /\ flow = "none" /\ page.mutations = 0
    /\ page.create["username"] = "x" /\ page.create["password"] = " "
    /\ page.create["fullName"] = "x"

\* C27: the step on which a create or update request is rejected leaves
\* lists, modals, selection and forms as they are and starts no reload; a
\* handler closes a modal, resets a form or clears the selection only on
\* the step that ends the reload after its request succeeded.
C27_RejectKeepsView ==
    [][ /\ (event' # event /\ event'.kind = "mutationReject" /\ ~event'.stale)
           => /\ ViewState(page') = ViewState(page)
              /\ page'.loads = page.loads
              /\ loading' = loading /\ ~loading'
              /\ flow' = "none"
        /\ (/\ ViewState(page') # ViewState(page)
            /\ event'.kind \notin {"mount", "openModal", "closeModal", "input"})
           => /\ flow \in {"mountLoad", "reload"}
              /\ event'.kind \in {"loadResolve", "loadReject"}
              /\ (<<page'.showCreate, page'.showEdit, page'.showAddRole,
                    page'.selected, page'.create, page'.edit>>
                  # <<page.showCreate, page.showEdit, page.showAddRole,
                      page.selected, page.create, page.edit>>)
                 => flow = "reload" /\ event'.alert = "success" ]_vars

\* C27 witness: an update of a user was rejected; the edit modal is still
\* shown with the values typed in.
C27_Witness ==
    /\ route = "/users"
    /\ event.kind = "mutationReject" /\ ~event.stale
    /\ page.showEdit /\ page.selected # Null
    /\ page.edit["username"] = "x" /\ page.edit["fullName"] = "x"
    /\ page.users.data /\ page.loads = 1

\* C28: users and roles of Users are always of the same load, and a load
\* of which a request failed leaves both empty.
C28_ListsOfOneLoad ==
    route = "/users" =>
        /\ page.users.load = page.roles.load
        /\ (event.kind = "loadReject" /\ ~event.stale)
              => ~page.users.data /\ ~page.roles.data

\* C28 witness: the reload after a mutation failed while the first load had
\* filled both lists; both lists are empty, of the second load.
C28_Witness ==
    /\ route = "/users"
    /\ event.kind = "loadReject" /\ ~event.stale
    /\ page.users = [load |-> 2, data |-> FALSE]
    /\ page.roles = [load |-> 2, data |-> FALSE]

=========================================================================
